---- MODULE Spec2Model ----
(***************************************************************************)
(* Model of ipywidgets/widgets/trait_types/traits.py: the eventful mapping *)
(* and sequence (EventfulElements, EventfulDict, EventfulList) and the     *)
(* date-time wire codec (datetime_to_json / datetime_from_json).           *)
(*                                                                         *)
(* Python objects are records tagged with their type:                      *)
(*   [type |-> "dict", items |-> function from keys to values]             *)
(*   [type |-> "list", items |-> sequence]                                 *)
(*   [type |-> "iter", items |-> the elements not yet consumed]            *)
(* Python indices are 0-based; TLA+ sequences are 1-based (see Pos).       *)
(***************************************************************************)
EXTENDS Integers, Sequences, FiniteSets, TLC

\* ------------------------------------------------------------------ bounds
MaxLen == 3
MaxVal == 2
MaxHexLen == 6

\* ------------------------------------------------------------ Python values
None == 0
Undefined == -1

Keys == {"a", "b"}
IntValues == 1..MaxVal
DictValues == IntValues \cup {None}
ListValues == IntValues

NoErr == "ok"

PyDict(f) == [type |-> "dict", items |-> f]
PyList(s) == [type |-> "list", items |-> s]
PyIter(s) == [type |-> "iter", items |-> s]

EmptyMap == [k \in {} |-> None]

\* All functions from a subset of Keys to vals.
Maps(vals) == UNION {[ks -> vals] : ks \in SUBSET Keys}

\* Sequences over S of length 0..n.
SeqsUpTo(S, n) == UNION {[1..m -> S] : m \in 0..n}

\* The enumerations (without repetition) of a finite set: iteration orders.
Orders(S) == {o \in [1..Cardinality(S) -> S] : \A i, j \in DOMAIN o : o[i] = o[j] => i = j}

\* ------------------------------------------------- plain list / dict steps
\* Each returns [err, value (contents afterwards), ret].
InRange(s, i) == -Len(s) <= i /\ i < Len(s)
Pos(s, i) == IF i < 0 THEN Len(s) + i + 1 ELSE i + 1

Ok(items) == [err |-> NoErr, items |-> items]
Raise(e, items) == [err |-> e, items |-> items]

RemoveAt(s, p) == [j \in 1..(Len(s) - 1) |-> IF j < p THEN s[j] ELSE s[j + 1]]
InsertAt(s, p, x) == [j \in 1..(Len(s) + 1) |-> IF j < p THEN s[j] ELSE IF j = p THEN x ELSE s[j - 1]]
Reversed(s) == [j \in 1..Len(s) |-> s[Len(s) + 1 - j]]

RECURSIVE SortedAsc(_)
SortedAsc(s) ==
  IF Len(s) = 0 THEN <<>>
  ELSE LET m == CHOOSE i \in 1..Len(s) : \A j \in 1..Len(s) : s[i] <= s[j]
       IN <<s[m]>> \o SortedAsc(RemoveAt(s, m))

\* list.index(x): 1-based position of the first element equal to x, 0 if none.
FirstPos(s, x) ==
  IF \E i \in 1..Len(s) : s[i] = x
  THEN CHOOSE i \in 1..Len(s) : s[i] = x /\ \A j \in 1..(i - 1) : s[j] # x
  ELSE 0

\* value[key]
GetItem(obj, key) ==
  IF obj.type = "dict"
  THEN IF key \in DOMAIN obj.items THEN [err |-> NoErr, val |-> obj.items[key]]
       ELSE [err |-> "KeyError", val |-> None]
  ELSE IF InRange(obj.items, key) THEN [err |-> NoErr, val |-> obj.items[Pos(obj.items, key)]]
       ELSE [err |-> "IndexError", val |-> None]

MapSet(f, k, v) == [x \in (DOMAIN f) \cup {k} |-> IF x = k THEN v ELSE f[x]]
MapDel(f, k) == [x \in (DOMAIN f) \ {k} |-> f[x]]
\* Mutant: on a key of both, the entry of f is kept.
MapMergeKeep(f, g) == [x \in (DOMAIN f) \cup (DOMAIN g) |-> IF x \in DOMAIN f THEN f[x] ELSE g[x]]

\* f overridden by g
MapMerge(f, g) == [x \in (DOMAIN f) \cup (DOMAIN g) |-> IF x \in DOMAIN g THEN g[x] ELSE f[x]]

RECURSIVE MapFromPairs(_, _)
MapFromPairs(f, ps) ==
  IF Len(ps) = 0 THEN f
  ELSE MapFromPairs(MapSet(f, ps[1][1], ps[1][2]), Tail(ps))

\* ------------------------------------------------------ the wrapped methods
\* A call is [method, args, kwargs]; args holds keys, values and argument
\* objects, kwargs is a function from names to values.
Call(method, args, kwargs) == [method |-> method, args |-> args, kwargs |-> kwargs]

NoKw == EmptyMap

\* The entries a positional argument of dict.update contributes.
UpdateItems(arg) ==
  IF arg.type = "dict" THEN arg.items ELSE MapFromPairs(EmptyMap, arg.items)

dict_method(s, c) ==
  LET a == c.args
  IN CASE c.method = "__setitem__" -> Ok(MapSet(s, a[1], a[2]))
       [] c.method = "setdefault" ->
            IF a[1] \in DOMAIN s THEN Ok(s)
            ELSE Ok(MapSet(s, a[1], IF Len(a) > 1 THEN a[2] ELSE None))
       [] c.method = "__delitem__" ->
            IF a[1] \in DOMAIN s THEN Ok(MapDel(s, a[1])) ELSE Raise("KeyError", s)
       [] c.method = "pop" ->
            IF a[1] \in DOMAIN s THEN Ok(MapDel(s, a[1]))
            ELSE IF Len(a) > 1 THEN Ok(s) ELSE Raise("KeyError", s)
       [] c.method = "update" ->
            Ok(MapMerge(IF Len(a) > 0 THEN MapMerge(s, UpdateItems(a[1])) ELSE s, c.kwargs))
       [] c.method = "clear" -> Ok(EmptyMap)
       [] c.method = "popitem" ->
            IF DOMAIN s = {} THEN Raise("KeyError", s) ELSE Ok(MapDel(s, a[1]))

list_method(s, c) ==
  LET a == c.args
  IN CASE c.method = "append" -> Ok(Append(s, a[1]))
       [] c.method = "extend" -> Ok(s \o a[1].items)
       [] c.method = "__setitem__" ->
            IF InRange(s, a[1]) THEN Ok([s EXCEPT ![Pos(s, a[1])] = a[2]])
            ELSE Raise("IndexError", s)
       [] c.method = "__delitem__" ->
            IF InRange(s, a[1]) THEN Ok(RemoveAt(s, Pos(s, a[1])))
            ELSE Raise("IndexError", s)
       [] c.method = "remove" ->
            IF FirstPos(s, a[1]) = 0 THEN Raise("ValueError", s)
            ELSE Ok(RemoveAt(s, FirstPos(s, a[1])))
       [] c.method = "reverse" -> Ok(Reversed(s))
       [] c.method = "sort" ->
            Ok(IF "reverse" \in DOMAIN c.kwargs /\ c.kwargs["reverse"]
               THEN Reversed(SortedAsc(Reversed(s))) ELSE SortedAsc(s))
       [] c.method = "insert" ->
            LET n == Len(s)
                p == IF a[1] < 0 THEN (IF n + a[1] < 0 THEN 0 ELSE n + a[1])
                     ELSE (IF a[1] > n THEN n ELSE a[1])
            IN Ok(InsertAt(s, p + 1, a[2]))
       [] c.method = "pop" ->
            LET i == IF Len(a) > 0 THEN a[1] ELSE -1
            IN IF InRange(s, i) THEN Ok(RemoveAt(s, Pos(s, i))) ELSE Raise("IndexError", s)

\* The uninstrumented method of the underlying container type.
Method(value, c) ==
  IF value.type = "dict" THEN dict_method(value.items, c) ELSE list_method(value.items, c)

\* ------------------------------------------------- EventfulElements hooks
\* What a before-hook hands back: [err, state, args], where state is what
\* it returned and args are the call's argument objects as it left them.
\* A returned object is tagged with what it is:
\*   "tuple"      (key, old) of _before_setitem
\*   "Bunch"      a change record
\*   "NoneType"   None
\*   "abstracted" the context of abstracted / abstracted_once, holding the
\*                states its primitive's before-hook returned, in call order
\*   "closure"    after_rearangement, closed over old (a copy) and new (the
\*                container itself)
Returned(state, args) == [err |-> NoErr, state |-> state, args |-> args]
Raised(e, args) == [err |-> e, state |-> [tag |-> "NoneType"], args |-> args]

\* A list held in a record or a closure: the container object itself, by
\* reference, or a copy of its elements.
ValueRef == [ref |-> "value"]
CopyOf(items) == [copy |-> items]

\* Mutant: None stands in for the absent sentinel.
OldOrNone(got) ==
  IF got.err \in {"KeyError", "IndexError"} THEN None ELSE got.val

\* try: old = value[key]  except (KeyError, IndexError): old = Undefined
OldOrUndefined(got) ==
  IF got.err \in {"KeyError", "IndexError"} THEN Undefined ELSE got.val

_before_setitem(value, call) ==
  Returned([tag |-> "tuple",
            key |-> call.args[1],
            old |-> OldOrUndefined(GetItem(value, call.args[1]))],
           call.args)

\* Mutant: the comparison of new with old is left out.
ChangeAlways(key, old, got) ==
  IF got.err # NoErr THEN [err |-> got.err, events |-> <<>>]
  ELSE [err |-> NoErr, events |-> <<[key |-> key, old |-> old, new |-> got.val]>>]

\* if new != old: return Bunch(key=key, old=old, new=new)
ChangeIfDiffers(key, old, got) ==
  IF got.err # NoErr THEN [err |-> got.err, events |-> <<>>]
  ELSE IF got.val # old
       THEN [err |-> NoErr, events |-> <<[key |-> key, old |-> old, new |-> got.val]>>]
       ELSE [err |-> NoErr, events |-> <<>>]

\* answer.before is the state; returns [err, events].
_after_setitem(value, before) ==
  ChangeIfDiffers(before.key, before.old, GetItem(value, before.key))

\* Mutant: a record is captured only for an old value that is true.
RemovalIfTruthy(key, got, args) ==
  IF got.err = "KeyError" \/ (got.err = NoErr /\ got.val = None)
  THEN Returned([tag |-> "NoneType"], args)
  ELSE IF got.err # NoErr THEN Raised(got.err, args)
  ELSE Returned([tag |-> "Bunch", event |-> [key |-> key, old |-> got.val]], args)

\* try: old = value[key]  except KeyError: pass  else: return Bunch(...)
RemovalIfPresent(key, got, args) ==
  IF got.err = "KeyError" THEN Returned([tag |-> "NoneType"], args)
  ELSE IF got.err # NoErr THEN Raised(got.err, args)
  ELSE Returned([tag |-> "Bunch", event |-> [key |-> key, old |-> got.val]], args)

\* Mutant: no record is captured.
_before_delitem_skip(value, call) ==
  Returned([tag |-> "NoneType"], call.args)

_before_delitem(value, call) ==
  RemovalIfPresent(call.args[1], GetItem(value, call.args[1]), call.args)

\* -------------------------------------------- scoped primitive contexts
\* getattr(self, "_before_" + name) for the two primitives.
BeforePrimitive(name, value, call) ==
  IF name = "setitem" THEN _before_setitem(value, call) ELSE _before_delitem(value, call)

EmptyContext(name) ==
  [err |-> NoErr, state |-> [tag |-> "abstracted", name |-> name, befores |-> <<>>]]

\* One more call inside the with block: b is what the primitive's
\* before-hook returned, rest the calls after it.
Capture(b, rest) ==
  IF b.err # NoErr THEN [err |-> b.err, state |-> [tag |-> "NoneType"]]
  ELSE IF rest.err # NoErr THEN rest
  ELSE [err |-> NoErr, state |-> [rest.state EXCEPT !.befores = <<b.state>> \o @]]

\* with self.abstracted(value, name) as f: f(...); f(...); ...
\* Each call of f runs the primitive's before-hook on the container as it
\* is then and keeps what it returned; a raising hook ends the block.
RECURSIVE abstracted(_, _, _)
abstracted(value, name, calls) ==
  IF Len(calls) = 0 THEN EmptyContext(name)
  ELSE Capture(BeforePrimitive(name, value, calls[1]), abstracted(value, name, Tail(calls)))

\* with self.abstracted_once(value, name) as f: f(...)
abstracted_once(value, name, call) == abstracted(value, name, <<call>>)

\* return setitem / return delitem: the context is the hook's result.
ReturnContext(ctx, args) == [err |-> ctx.err, state |-> ctx.state, args |-> args]

\* ------------------------------------------------------ EventfulDict hooks
\* Mutant: setdefault is left out of the table.
EventfulDict_event_map_nosetdefault ==
  [setitem |-> {"__setitem__"},
   delitem |-> {"__delitem__", "pop"},
   update |-> {"update"},
   clear |-> {"clear"}]

EventfulDict_event_map ==
  [setitem |-> {"__setitem__", "setdefault"},
   delitem |-> {"__delitem__", "pop"},
   update |-> {"update"},
   clear |-> {"clear"}]

\* new in _before_update: call.args[0] after new.update(call.kwargs), or
\* call.kwargs.
UpdateNew(call) ==
  IF Len(call.args) > 0 THEN MapMerge(call.args[1].items, call.kwargs) ELSE call.kwargs

\* The keys new.items() yields in _before_update.
UpdateKeys(call) ==
  IF Len(call.args) > 0 /\ call.args[1].type # "dict" THEN {} ELSE DOMAIN UpdateNew(call)

\* Mutant: the loop runs over the items twice.
SetitemCallsTwice(new, ord) ==
  [i \in 1..(2 * Len(ord)) |->
     Call("setitem", <<(ord \o ord)[i], new[(ord \o ord)[i]]>>, NoKw)]

\* for k, v in new.items(): setitem(k, v)
SetitemCalls(new, ord) ==
  [i \in 1..Len(ord) |-> Call("setitem", <<ord[i], new[ord[i]]>>, NoKw)]

\* ord: the order in which new.items() yields the keys.
_before_update(value, call, ord) ==
  IF Len(call.args) > 0 /\ call.args[1].type # "dict"
  THEN Raised("AttributeError", call.args)
  ELSE ReturnContext(abstracted(value, "setitem", SetitemCalls(UpdateNew(call), ord)),
                     IF Len(call.args) > 0 THEN <<PyDict(UpdateNew(call))>> ELSE call.args)

\* Mutant: the loop leaves out the first key.
_before_clear_butfirst(value, call, ord) ==
  ReturnContext(abstracted(value, "delitem",
                           [i \in 1..(Len(ord) - 1) |-> Call("delitem", <<ord[i + 1]>>, NoKw)]),
                call.args)

\* ord: the order in which value.keys() yields the keys.
_before_clear(value, call, ord) ==
  ReturnContext(abstracted(value, "delitem",
                           [i \in 1..Len(ord) |-> Call("delitem", <<ord[i]>>, NoKw)]),
                call.args)

\* ------------------------------------------------------ EventfulList hooks
EventfulList_event_map ==
  [append |-> {"append"},
   extend |-> {"extend"},
   setitem |-> {"__setitem__"},
   remove |-> {"remove"},
   delitem |-> {"__delitem__"},
   reverse |-> {"reverse"},
   sort |-> {"sort"}]

\* Mutant: the index of the last element instead of the length.
_before_append_last(value, call) ==
  ReturnContext(abstracted_once(value, "setitem",
                                Call("setitem", <<Len(value.items) - 1, call.args[1]>>, NoKw)),
                call.args)

_before_append(value, call) ==
  ReturnContext(abstracted_once(value, "setitem",
                                Call("setitem", <<Len(value.items), call.args[1]>>, NoKw)),
                call.args)

\* for i, v in enumerate(call.args[0]): setitem(i, v)
\* enumerate yields (0, v0), (1, v1), ...; an iterator argument is left
\* exhausted.
_before_extend(value, call) ==
  ReturnContext(abstracted(value, "setitem",
                           [i \in 1..Len(call.args[1].items) |->
                              Call("setitem", <<i - 1, call.args[1].items[i]>>, NoKw)]),
                IF call.args[1].type = "iter" THEN <<PyIter(<<>>)>> ELSE call.args)

\* Mutant: an index lookup that gives -1 for an absent value instead of
\* raising.
_before_remove_find(value, call) ==
  ReturnContext(abstracted_once(value, "delitem",
                                Call("delitem", <<FirstPos(value.items, call.args[1]) - 1>>, NoKw)),
                call.args)

\* Mutant: the index of the last element equal to the target is taken.
_before_remove_last(value, call) ==
  IF FirstPos(value.items, call.args[1]) = 0 THEN Raised("ValueError", call.args)
  ELSE ReturnContext(abstracted_once(value, "delitem",
                                     Call("delitem",
                                          <<Len(value.items) - FirstPos(Reversed(value.items), call.args[1])>>,
                                          NoKw)),
                     call.args)

_before_remove(value, call) ==
  IF FirstPos(value.items, call.args[1]) = 0 THEN Raised("ValueError", call.args)
  ELSE ReturnContext(abstracted_once(value, "delitem",
                                     Call("delitem", <<FirstPos(value.items, call.args[1]) - 1>>, NoKw)),
                     call.args)

\* Mutant: old = new, without the copy.
rearrangement_nocopy(new) ==
  Returned([tag |-> "closure", old |-> ValueRef, new |-> ValueRef], <<>>)

\* old = new[:] copies; the closure keeps new, the container itself.
rearrangement(new) ==
  Returned([tag |-> "closure", old |-> CopyOf(new.items), new |-> ValueRef], <<>>)

_before_reverse(value, call) == rearrangement(value)

_before_sort(value, call) == rearrangement(value)

after_rearangement(value, closure) ==
  [err |-> NoErr, events |-> <<[old |-> closure.old, new |-> closure.new]>>]

\* ------------------------------------------------ the wrapping protocol
event_map(value) ==
  IF value.type = "dict" THEN EventfulDict_event_map ELSE EventfulList_event_map

\* The abstract operations whose table entry names the method.
OpsOf(value, method) == {op \in DOMAIN event_map(value) : method \in event_map(value)[op]}

OpOf(value, method) == CHOOSE op \in OpsOf(value, method) : TRUE

\* Step 1: the before-hook registered for op.
Before(op, value, call, ord) ==
  CASE op = "setitem" -> _before_setitem(value, call)
    [] op = "delitem" -> _before_delitem(value, call)
    [] op = "update" -> _before_update(value, call, ord)
    [] op = "clear" -> _before_clear(value, call, ord)
    [] op = "append" -> _before_append(value, call)
    [] op = "extend" -> _before_extend(value, call)
    [] op = "remove" -> _before_remove(value, call)
    [] op = "reverse" -> _before_reverse(value, call)
    [] op = "sort" -> _before_sort(value, call)

\* The after-hook of a primitive on one captured state: _after_setitem
\* for setitem; delitem has none, its before-hook's record is the result.
AfterPrimitive(name, value, before) ==
  IF name = "setitem" THEN _after_setitem(value, before)
  ELSE IF before.tag = "Bunch" THEN [err |-> NoErr, events |-> <<before.event>>]
  ELSE [err |-> NoErr, events |-> <<>>]

\* The records of one captured state followed by those of the rest.
Collect(a, rest) ==
  IF a.err # NoErr THEN a
  ELSE IF rest.err # NoErr THEN rest
  ELSE [err |-> NoErr, events |-> a.events \o rest.events]

\* The records of a context's captured states, in capture order: one per
\* captured state whose after-hook yields one.
RECURSIVE AfterAbstracted(_, _, _)
AfterAbstracted(name, value, befores) ==
  IF Len(befores) = 0 THEN [err |-> NoErr, events |-> <<>>]
  ELSE Collect(AfterPrimitive(name, value, befores[1]),
               AfterAbstracted(name, value, Tail(befores)))

\* Step 3: the after-hook, on the container as the method left it.
After(op, value, state) ==
  CASE state.tag = "abstracted" -> AfterAbstracted(state.name, value, state.befores)
    [] state.tag = "closure" -> after_rearangement(value, state)
    [] OTHER -> AfterPrimitive(op, value, state)

\* What a method leaves of its argument objects: extend consumes an iterator.
ArgsAfter(c) ==
  IF c.method = "extend" /\ c.args[1].type = "iter" THEN <<PyIter(<<>>)>> ELSE c.args

Outcome(items, events, err, at, args) ==
  [items |-> items, events |-> events, err |-> err, at |-> at, args |-> args]

\* Step 2 on its own: a method the table does not name is the container
\* type's own, and nothing is emitted.
Unhooked(m, c) ==
  Outcome(m.items, <<>>, m.err, IF m.err = NoErr THEN "" ELSE "method", ArgsAfter(c))

PlainCall(value, c) == Unhooked(Method(value, c), c)

\* Step 4: a is what the after-hook gave; every record is emitted.
Emit(m, c2, a) ==
  IF a.err # NoErr THEN Outcome(m.items, <<>>, a.err, "after", ArgsAfter(c2))
  ELSE Outcome(m.items, a.events, NoErr, "", ArgsAfter(c2))

\* Steps 2-3: m is what the method did; a raising method ends the call.
AfterMethod(op, value, c2, state, m) ==
  IF m.err # NoErr THEN Outcome(m.items, <<>>, m.err, "method", ArgsAfter(c2))
  ELSE Emit(m, c2, After(op, [value EXCEPT !.items = m.items], state))

\* Steps 1-2: b is what the before-hook gave; a raising hook ends the call.
AfterBefore(op, value, c, b) ==
  IF b.err # NoErr THEN Outcome(value.items, <<>>, b.err, "before", b.args)
  ELSE AfterMethod(op, value, [c EXCEPT !.args = b.args], b.state,
                   Method(value, [c EXCEPT !.args = b.args]))

\* An instrumented call: before-hook, method, after-hook, emission.
InstrumentedCall(value, c, ord) ==
  AfterBefore(OpOf(value, c.method), value, c, Before(OpOf(value, c.method), value, c, ord))

Invoke(value, c, ord) ==
  IF OpsOf(value, c.method) = {} THEN PlainCall(value, c) ELSE InstrumentedCall(value, c, ord)

\* ------------------------------------------------- date-time wire codec
\* pyMajor is the interpreter's major version: "/" floors two ints under
\* Python 2 and is true division, giving a float, under Python 3.
NoneObj == [kind |-> "None"]

Datetime(y, mo, d, h, mi, s, us) ==
  [kind |-> "datetime", year |-> y, month |-> mo, day |-> d,
   hour |-> h, minute |-> mi, second |-> s, microsecond |-> us]

Date(y, mo, d) == [kind |-> "date", year |-> y, month |-> mo, day |-> d]

\* n / 1000, kept exactly: whole + frac/1000.
Div1000(py, n) ==
  IF py = 2 THEN [float |-> FALSE, whole |-> n \div 1000, frac |-> 0]
  ELSE [float |-> TRUE, whole |-> n \div 1000, frac |-> n % 1000]

\* x * 1000, an int when x is one and a float otherwise.
Mul1000(x) == [float |-> x.float, val |-> x.whole * 1000 + x.frac]

datetime_to_json(py, pydt) ==
  IF pydt.kind = "None" THEN [err |-> NoErr, val |-> NoneObj]
  ELSE IF pydt.kind = "date" THEN [err |-> "AttributeError", val |-> NoneObj]
  ELSE [err |-> NoErr,
        val |-> [kind |-> "dict",
                 year |-> pydt.year,
                 month |-> pydt.month - 1,
                 date |-> pydt.day,
                 hours |-> pydt.hour,
                 minutes |-> pydt.minute,
                 seconds |-> pydt.second,
                 milliseconds |-> Div1000(py, pydt.microsecond)]]

\* dt.datetime(...) takes an integer microsecond in 0..999999.
datetime_from_json(js) ==
  IF js.kind = "None" THEN [err |-> NoErr, val |-> NoneObj]
  ELSE LET us == Mul1000(js.milliseconds)
       IN IF us.float THEN [err |-> "TypeError", val |-> NoneObj]
          ELSE IF us.val < 0 \/ us.val > 999999 THEN [err |-> "ValueError", val |-> NoneObj]
          ELSE [err |-> NoErr,
                val |-> Datetime(js.year, js.month + 1, js.date, js.hours,
                                 js.minutes, js.seconds, us.val)]

\* ------------------------------------------------------------------ Color
\* A string is the sequence of its characters; Str gives it as one string.
RECURSIVE Str(_)
Str(s) == IF Len(s) = 0 THEN "" ELSE s[1] \o Str(Tail(s))

UpperCase == <<"A", "B", "C", "D", "E", "F", "G", "H", "I", "J", "K", "L", "M",
               "N", "O", "P", "Q", "R", "S", "T", "U", "V", "W", "X", "Y", "Z">>
LowerCase == <<"a", "b", "c", "d", "e", "f", "g", "h", "i", "j", "k", "l", "m",
               "n", "o", "p", "q", "r", "s", "t", "u", "v", "w", "x", "y", "z">>

LowerChar(ch) ==
  IF \E i \in DOMAIN UpperCase : UpperCase[i] = ch
  THEN LowerCase[CHOOSE i \in DOMAIN UpperCase : UpperCase[i] = ch]
  ELSE ch

\* value.lower()
lower(s) == [i \in 1..Len(s) |-> LowerChar(s[i])]

_color_names ==
  {
   "aliceblue", "antiquewhite", "aqua", "aquamarine", "azure", "beige",
   "bisque", "black", "blanchedalmond", "blue", "blueviolet", "brown",
   "burlywood", "cadetblue", "chartreuse", "chocolate", "coral",
   "cornflowerblue", "cornsilk", "crimson", "cyan", "darkblue", "darkcyan",
   "darkgoldenrod", "darkgray", "darkgreen", "darkkhaki", "darkmagenta",
   "darkolivegreen", "darkorange", "darkorchid", "darkred", "darksalmon",
   "darkseagreen", "darkslateblue", "darkslategray", "darkturquoise",
   "darkviolet", "deeppink", "deepskyblue", "dimgray", "dodgerblue",
   "firebrick", "floralwhite", "forestgreen", "fuchsia", "gainsboro",
   "ghostwhite", "gold", "goldenrod", "gray", "green", "greenyellow",
   "honeydew", "hotpink", "indianred ", "indigo ", "ivory", "khaki",
   "lavender", "lavenderblush", "lawngreen", "lemonchiffon", "lightblue",
   "lightcoral", "lightcyan", "lightgoldenrodyellow", "lightgray",
   "lightgreen", "lightpink", "lightsalmon", "lightseagreen", "lightskyblue",
   "lightslategray", "lightsteelblue", "lightyellow", "lime", "limegreen",
   "linen", "magenta", "maroon", "mediumaquamarine", "mediumblue",
   "mediumorchid", "mediumpurple", "mediumseagreen", "mediumslateblue",
   "mediumspringgreen", "mediumturquoise", "mediumvioletred", "midnightblue",
   "mintcream", "mistyrose", "moccasin", "navajowhite", "navy", "oldlace",
   "olive", "olivedrab", "orange", "orangered", "orchid", "palegoldenrod",
   "palegreen", "paleturquoise", "palevioletred", "papayawhip", "peachpuff",
   "peru", "pink", "plum", "powderblue", "purple", "rebeccapurple", "red",
   "rosybrown", "royalblue", "saddlebrown", "salmon", "sandybrown",
   "seagreen", "seashell", "sienna", "silver", "skyblue", "slateblue",
   "slategray", "snow", "springgreen", "steelblue", "tan", "teal", "thistle",
   "tomato", "turquoise", "violet", "wheat", "white", "whitesmoke", "yellow",
   "yellowgreen"
  }

\* [a-fA-F0-9]
HexDigits ==
  {"0", "1", "2", "3", "4", "5", "6", "7", "8", "9",
   "a", "b", "c", "d", "e", "f", "A", "B", "C", "D", "E", "F"}

\* s with one newline at its end left out: $ matches at the end of the
\* string and before a newline that ends it.
BeforeFinalNewline(s) ==
  IF Len(s) > 0 /\ s[Len(s)] = "\n" THEN SubSeq(s, 1, Len(s) - 1) ELSE s

\* #[a-fA-F0-9]{3}(?:[a-fA-F0-9]{3})?  over the whole of s
IsHexColor(s) ==
  /\ Len(s) \in {4, 7}
  /\ s[1] = "#"
  /\ \A i \in 2..Len(s) : s[i] \in HexDigits

\* _color_re.match(value)
_color_re_match(s) == IsHexColor(s) \/ IsHexColor(BeforeFinalNewline(s))

\* Color.validate: the value, or self.error(obj, value).
Color_validate(val) ==
  IF Str(lower(val)) \in _color_names \/ _color_re_match(val)
  THEN [err |-> NoErr, val |-> val]
  ELSE [err |-> "TraitError", val |-> val]

\* ------------------------------------------------------------------ state
VARIABLES
  value,      \* the eventful container
  pre,        \* the container as it was when the last call began
  call,       \* the last call, with its arguments as they were passed
  emitted,    \* the change records the last call emitted, in order
  err,        \* the error the last call raised, NoErr if none
  errAt,      \* the step that raised: "before", "method" or "after"
  argsAfter,  \* the last call's argument objects as the call left them
  phase,      \* "idle", or "returned" while the caller holds a call's outcome
  pyMajor,    \* codec: the interpreter's major version
  pydt,       \* codec: the value to serialise
  wire,       \* codec: the outcome of datetime_to_json
  back,       \* codec: the outcome of datetime_from_json
  pc,         \* codec: "start", "wire", "done"
  colorValue,   \* Color: the string to validate, as its characters
  colorResult,  \* Color: the outcome of Color.validate
  mirror,     \* a listener's copy of the mapping, kept up from the records
  kept,       \* a rearrangement record a listener holds on to
  keptShown   \* what the fields of kept showed when it was emitted

vars == <<value, pre, call, emitted, err, errAt, argsAfter, phase, pyMajor, pydt, wire, back, pc,
          colorValue, colorResult, mirror, kept, keptShown>>

containerVars == <<value, pre, call, emitted, err, errAt, argsAfter, phase>>
codecVars == <<pyMajor, pydt, wire, back, pc>>
colorVars == <<colorValue, colorResult>>
observerVars == <<mirror, kept, keptShown>>

NoOutcome == [err |-> NoErr, val |-> NoneObj]

ContainerIdle ==
  /\ pre = value
  /\ call = Call("__init__", <<>>, NoKw)
  /\ emitted = <<>>
  /\ err = NoErr
  /\ errAt = ""
  /\ argsAfter = <<>>
  /\ phase = "idle"

CodecIdle ==
  /\ pyMajor = 3
  /\ pydt = NoneObj
  /\ wire = NoOutcome
  /\ back = NoOutcome
  /\ pc = "idle"

ColorIdle ==
  /\ colorValue = <<>>
  /\ colorResult = [err |-> "idle", val |-> <<>>]

NoRecord == [none |-> TRUE]

ObserverIdle ==
  /\ mirror = EmptyMap
  /\ kept = NoRecord
  /\ keptShown = NoRecord

Init ==
  /\ value \in {PyDict(EmptyMap), PyList(<<>>)}
  /\ ContainerIdle
  /\ CodecIdle
  /\ ColorIdle
  /\ ObserverIdle

\* One call of a method on the container, from the caller's next statement.
Return(c, r) ==
  /\ phase = "idle"
  /\ phase' = "returned"
  /\ value' = [value EXCEPT !.items = r.items]
  /\ pre' = value
  /\ call' = c
  /\ emitted' = r.events
  /\ err' = r.err
  /\ errAt' = r.at
  /\ argsAfter' = r.args
  /\ UNCHANGED <<codecVars, colorVars, observerVars>>

Do(c, ord) == Return(c, Invoke(value, c, ord))

\* ------------------------------------------------------- mapping actions
IsDict == value.type = "dict"
IsList == value.type = "list"

\* Positional arguments update takes: a mapping, or a list of (key, value)
\* pairs.
PairLists == {<<>>} \cup {<<<<k, v>>>> : k \in Keys, v \in DictValues}
UpdateArgs == {PyDict(m) : m \in Maps(DictValues)} \cup {PyList(ps) : ps \in PairLists}

DictSetItem ==
  /\ IsDict
  /\ \E k \in Keys, v \in DictValues : Do(Call("__setitem__", <<k, v>>, NoKw), <<>>)

DictSetDefault ==
  /\ IsDict
  /\ \E k \in Keys :
       \/ Do(Call("setdefault", <<k>>, NoKw), <<>>)
       \/ \E v \in DictValues : Do(Call("setdefault", <<k, v>>, NoKw), <<>>)

DictDelItem ==
  /\ IsDict
  /\ \E k \in Keys : Do(Call("__delitem__", <<k>>, NoKw), <<>>)

DictPop ==
  /\ IsDict
  /\ \E k \in Keys :
       \/ Do(Call("pop", <<k>>, NoKw), <<>>)
       \/ \E dflt \in DictValues : Do(Call("pop", <<k, dflt>>, NoKw), <<>>)

DictUpdate ==
  /\ IsDict
  /\ \E a \in {<<>>} \cup {<<m>> : m \in UpdateArgs}, kw \in Maps(DictValues) :
       LET c == Call("update", a, kw)
       IN \E ord \in Orders(UpdateKeys(c)) : Do(c, ord)

DictClear ==
  /\ IsDict
  /\ \E ord \in Orders(DOMAIN value.items) : Do(Call("clear", <<>>, NoKw), ord)

\* popitem removes an entry of the mapping's choosing.
DictPopItem ==
  /\ IsDict
  /\ IF DOMAIN value.items = {} THEN Do(Call("popitem", <<>>, NoKw), <<>>)
     ELSE \E k \in DOMAIN value.items : Do(Call("popitem", <<k>>, NoKw), <<>>)

\* ------------------------------------------------------ sequence actions
Indices == (-(MaxLen + 1))..MaxLen

ListAppend ==
  /\ IsList
  /\ Len(value.items) < MaxLen
  /\ \E x \in ListValues : Do(Call("append", <<x>>, NoKw), <<>>)

\* extend takes any iterable: a list, or an iterator over one.
ListExtend ==
  /\ IsList
  /\ \E seq \in SeqsUpTo(ListValues, MaxLen - Len(value.items)) :
       \/ Do(Call("extend", <<PyList(seq)>>, NoKw), <<>>)
       \/ Do(Call("extend", <<PyIter(seq)>>, NoKw), <<>>)

ListSetItem ==
  /\ IsList
  /\ \E i \in Indices, x \in ListValues : Do(Call("__setitem__", <<i, x>>, NoKw), <<>>)

ListDelItem ==
  /\ IsList
  /\ \E i \in Indices : Do(Call("__delitem__", <<i>>, NoKw), <<>>)

ListRemove ==
  /\ IsList
  /\ \E x \in ListValues : Do(Call("remove", <<x>>, NoKw), <<>>)

ListReverse ==
  /\ IsList
  /\ Do(Call("reverse", <<>>, NoKw), <<>>)

ListSort ==
  /\ IsList
  /\ \/ Do(Call("sort", <<>>, NoKw), <<>>)
     \/ Do(Call("sort", <<>>, [k \in {"reverse"} |-> TRUE]), <<>>)

ListInsert ==
  /\ IsList
  /\ Len(value.items) < MaxLen
  /\ \E i \in Indices, x \in ListValues : Do(Call("insert", <<i, x>>, NoKw), <<>>)

ListPop ==
  /\ IsList
  /\ \/ Do(Call("pop", <<>>, NoKw), <<>>)
     \/ \E i \in Indices : Do(Call("pop", <<i>>, NoKw), <<>>)

\* The caller is done with the last call's outcome and goes on.
Resume ==
  /\ phase = "returned"
  /\ phase' = "idle"
  /\ pre' = value
  /\ call' = Call("__init__", <<>>, NoKw)
  /\ emitted' = <<>>
  /\ err' = NoErr
  /\ errAt' = ""
  /\ argsAfter' = <<>>
  /\ UNCHANGED <<value, codecVars, colorVars>>

Continue ==
  /\ Resume
  /\ UNCHANGED observerVars

Next ==
  \/ DictSetItem
  \/ DictSetDefault
  \/ DictDelItem
  \/ DictPop
  \/ DictUpdate
  \/ DictClear
  \/ DictPopItem
  \/ ListAppend
  \/ ListExtend
  \/ ListSetItem
  \/ ListDelItem
  \/ ListRemove
  \/ ListReverse
  \/ ListSort
  \/ ListInsert
  \/ ListPop
  \/ Continue

Spec == Init /\ [][Next]_vars

\* ---------------------------------------------------------- codec actions
Years == {1900, 2015}
Months == {1, 12}
Days == {1, 31}
Hours == {0, 23}
Minutes == {0, 59}
Seconds == {0, 59}
Microseconds == {0, 1, 999, 1000, 123456, 999999}

CodecInputs ==
  {NoneObj}
  \cup {Date(y, mo, d) : y \in Years, mo \in Months, d \in Days}
  \cup UNION {{Datetime(dd.year, dd.month, dd.day, t[1], t[2], t[3], t[4]) :
                 t \in Hours \X Minutes \X Seconds \X Microseconds} :
              dd \in {Date(y, mo, d) : y \in Years, mo \in Months, d \in Days}}

CodecInit ==
  /\ value = PyDict(EmptyMap)
  /\ ContainerIdle
  /\ pyMajor \in {2, 3}
  /\ pydt \in CodecInputs
  /\ wire = NoOutcome
  /\ back = NoOutcome
  /\ pc = "start"
  /\ ColorIdle
  /\ ObserverIdle

ToJson ==
  /\ pc = "start"
  /\ wire' = datetime_to_json(pyMajor, pydt)
  /\ pc' = "wire"
  /\ UNCHANGED <<pyMajor, pydt, back, containerVars, colorVars, observerVars>>

FromJson ==
  /\ pc = "wire"
  /\ wire.err = NoErr
  /\ back' = datetime_from_json(wire.val)
  /\ pc' = "done"
  /\ UNCHANGED <<pyMajor, pydt, wire, containerVars, colorVars, observerVars>>

CodecNext ==
  \/ ToJson
  \/ FromJson

CodecSpec == CodecInit /\ [][CodecNext]_vars

\* ------------------------------------------------------------ listeners
\* A listener of the mapping applies a record to its mirror: a record with
\* new sets the key, a removal record deletes it.
ApplyRecord(mir, rec) ==
  IF "new" \in DOMAIN rec THEN MapSet(mir, rec.key, rec.new) ELSE MapDel(mir, rec.key)

RECURSIVE ApplyRecords(_, _)
ApplyRecords(mir, recs) ==
  IF Len(recs) = 0 THEN mir
  ELSE ApplyRecords(ApplyRecord(mir, recs[1]), Tail(recs))

\* The mirror starts equal to the mapping.
MirrorInit ==
  /\ value \in {PyDict(m) : m \in Maps(DictValues)}
  /\ ContainerIdle
  /\ CodecIdle
  /\ ColorIdle
  /\ mirror = value.items
  /\ kept = NoRecord
  /\ keptShown = NoRecord

\* The listener has applied the records of the call in emission order, and
\* the caller goes on.
MirrorContinue ==
  /\ Resume
  /\ mirror' = ApplyRecords(mirror, emitted)
  /\ UNCHANGED <<kept, keptShown>>

MirrorNext ==
  \/ DictSetItem
  \/ DictSetDefault
  \/ DictDelItem
  \/ DictPop
  \/ DictUpdate
  \/ DictClear
  \/ MirrorContinue

MirrorSpec == MirrorInit /\ [][MirrorNext]_vars

\* What a list field of an emitted record shows when it is read.
Deref(x) == IF "ref" \in DOMAIN x THEN value.items ELSE x.copy

\* A listener of the sequence keeps the record of a reverse or sort, and
\* notes what its fields show; the caller goes on.
Keep ==
  /\ Resume
  /\ IsList
  /\ call.method \in {"reverse", "sort"}
  /\ Len(emitted) = 1
  /\ kept = NoRecord
  /\ kept' = emitted[1]
  /\ keptShown' = [old |-> Deref(emitted[1].old), new |-> Deref(emitted[1].new)]
  /\ UNCHANGED mirror

KeepInit ==
  /\ value = PyList(<<>>)
  /\ ContainerIdle
  /\ CodecIdle
  /\ ColorIdle
  /\ ObserverIdle

KeepNext ==
  \/ ListAppend
  \/ ListSetItem
  \/ ListReverse
  \/ ListSort
  \/ Keep
  \/ Continue

KeepSpec == KeepInit /\ [][KeepNext]_vars

\* ----------------------------------------------------------- Color actions
HexAlphabet == {"0", "a", "F", "g"}

NameInputs ==
  {<<"T", "A", "N">>,
   <<"T", "A", "n">>,
   <<"T", "a", "N">>,
   <<"T", "a", "n">>,
   <<"t", "A", "N">>,
   <<"t", "A", "n">>,
   <<"t", "a", "N">>,
   <<"t", "a", "n">>,
   <<"R", "E", "D">>,
   <<"R", "E", "d">>,
   <<"R", "e", "D">>,
   <<"R", "e", "d">>,
   <<"r", "E", "D">>,
   <<"r", "E", "d">>,
   <<"r", "e", "D">>,
   <<"r", "e", "d">>,
   <<"i", "n", "d", "i", "g", "o">>,
   <<"I", "N", "D", "I", "G", "O">>,
   <<"I", "n", "d", "i", "g", "o">>,
   <<"i", "n", "d", "i", "a", "n", "r", "e", "d">>,
   <<"I", "N", "D", "I", "A", "N", "R", "E", "D">>,
   <<"I", "n", "d", "i", "a", "n", "r", "e", "d">>,
   <<"b", "l", "u", "e">>,
   <<"B", "L", "U", "E">>,
   <<"B", "l", "u", "e">>,
   <<"i", "v", "o", "r", "y">>,
   <<"I", "V", "O", "R", "Y">>,
   <<"I", "v", "o", "r", "y">>,
   <<"i", "n", "d", "i", "g", "o", " ">>,
   <<"I", "N", "D", "I", "G", "O", " ">>,
   <<"i", "n", "d", "i", "a", "n", "r", "e", "d", " ">>,
   <<"b", "l", "u", "e", " ">>,
   <<"T", "a", "n", " ">>,
   <<"i", "n", "d", "i", "g">>,
   <<"r", "e">>,
   <<>>,
   <<" ", "t", "a", "n">>}

ColorInputs ==
  NameInputs
  \cup {<<"#">> \o h : h \in SeqsUpTo(HexAlphabet, MaxHexLen)}
  \cup {<<"#">> \o h \o <<"\n">> : h \in SeqsUpTo(HexAlphabet, 3)}
  \cup {h : h \in SeqsUpTo(HexAlphabet, 3)}

ColorInit ==
  /\ value = PyDict(EmptyMap)
  /\ ContainerIdle
  /\ CodecIdle
  /\ ObserverIdle
  /\ colorValue \in ColorInputs
  /\ colorResult = [err |-> "pending", val |-> <<>>]

Validate ==
  /\ colorResult.err = "pending"
  /\ colorResult' = Color_validate(colorValue)
  /\ UNCHANGED <<colorValue, containerVars, codecVars, observerVars>>

ColorNext == Validate

ColorSpec == ColorInit /\ [][ColorNext]_vars

\* ================================================================ claims
Done == phase = "returned"
IsCall(type, method) == Done /\ pre.type = type /\ call.method = method
Instrumented == OpsOf(pre, call.method) # {}

\* The value at key before the call, the absent sentinel if there was none.
OldAt(k) == IF k \in DOMAIN pre.items THEN pre.items[k] ELSE Undefined

\* The indices of the emitted records about key k.
RecordsFor(k) == {i \in DOMAIN emitted : emitted[i].key = k}

\* ---------------------------------------------------------------- C1
\* C1 (as claimed): after every instrumented operation of the eventful
\* mapping or sequence, with any argument the plain operation accepts, the
\* contents equal what the plain dict/list operation gives on the same
\* starting contents, and the call fails only when the plain call fails.
C1_ContentsAsPlain ==
  (Done /\ Instrumented) =>
     /\ value.items = Method(pre, call).items
     /\ (err # NoErr => Method(pre, call).err # NoErr)

\* ---------------------------------------------------------------- C2
\* C2: mapping item assignment m[k] = v emits nothing when k is present
\* with a value equal to v, and otherwise exactly one record
\* {key: k, old, new: v}, old being the value at k before the call or the
\* absent sentinel, which is not None.
C2_SetitemRecord ==
  IsCall("dict", "__setitem__") =>
     LET k == call.args[1]
         v == call.args[2]
     IN /\ Undefined # None
        /\ IF k \in DOMAIN pre.items /\ pre.items[k] = v
           THEN emitted = <<>>
           ELSE emitted = <<[key |-> k, old |-> OldAt(k), new |-> v]>>

\* None is assigned to a key that was absent.
C2_Witness ==
  /\ IsCall("dict", "__setitem__")
  /\ call.args[1] \notin DOMAIN pre.items
  /\ call.args[2] = None
  /\ Len(emitted) = 1

\* ---------------------------------------------------------------- C3
\* C3 (as claimed): extend(seq) on a sequence of length L emits one record
\* per element of seq, in order, the j-th being
\* {key: L + j, old: absent sentinel, new: seq[j]}.
C3_ExtendRecords ==
  (IsCall("list", "extend") /\ call.args[1].type = "list") =>
     emitted = [j \in 1..Len(call.args[1].items) |->
                  [key |-> Len(pre.items) + j - 1,
                   old |-> Undefined,
                   new |-> call.args[1].items[j]]]

\* ---------------------------------------------------------------- C4
\* C4: append(x) on a sequence of length L emits exactly one record
\* {key: L, old: absent sentinel, new: x}, and x is then at index L.
C4_AppendRecord ==
  IsCall("list", "append") =>
     /\ emitted = <<[key |-> Len(pre.items), old |-> Undefined, new |-> call.args[1]]>>
     /\ Len(value.items) = Len(pre.items) + 1
     /\ value.items[Len(pre.items) + 1] = call.args[1]

\* An append to a sequence that already has elements.
C4_Witness ==
  /\ IsCall("list", "append")
  /\ Len(pre.items) >= 1
  /\ Len(emitted) = 1

\* ---------------------------------------------------------------- C5
\* C5: update with a mapping and/or named arguments emits, for every key
\* of the merged argument, no record when the mapping already holds that
\* value at the key and exactly one record {key, old, new} otherwise, and
\* no record about any other key.
C5_UpdateRecords ==
  (IsCall("dict", "update") /\ (Len(call.args) = 0 \/ call.args[1].type = "dict")) =>
     LET merged == MapMerge(IF Len(call.args) > 0 THEN call.args[1].items ELSE EmptyMap,
                            call.kwargs)
     IN /\ \A i \in DOMAIN emitted : emitted[i].key \in DOMAIN merged
        /\ \A k \in DOMAIN merged :
             IF k \in DOMAIN pre.items /\ pre.items[k] = merged[k]
             THEN RecordsFor(k) = {}
             ELSE /\ Cardinality(RecordsFor(k)) = 1
                  /\ \A i \in RecordsFor(k) :
                       emitted[i] = [key |-> k, old |-> OldAt(k), new |-> merged[k]]

\* update({a: 1, b: 2}) on a mapping where a is 1 already: one record, for b.
C5_Witness ==
  /\ IsCall("dict", "update")
  /\ Len(call.args) = 1
  /\ call.args[1] = PyDict([k \in {"a", "b"} |-> IF k = "a" THEN 1 ELSE 2])
  /\ call.kwargs = NoKw
  /\ "a" \in DOMAIN pre.items
  /\ pre.items["a"] = 1
  /\ Len(emitted) = 1
  /\ emitted[1].key = "b"

C7_RearrangementRecord ==
  (IsCall("list", "reverse") \/ IsCall("list", "sort")) =>
     /\ Len(emitted) = 1
     /\ DOMAIN emitted[1] = {"old", "new"}
     /\ Deref(emitted[1].old) = pre.items
     /\ Deref(emitted[1].new) = Method(pre, call).items

\* sort() of a one-element sequence: the order cannot change.
C7_Witness ==
  /\ IsCall("list", "sort")
  /\ Len(pre.items) = 1
  /\ value.items = pre.items
  /\ Len(emitted) = 1

\* ---------------------------------------------------------------- C8
\* C8 (as claimed): every call of a mutating method of the container that
\* changes the contents emits a change record.
C8_EveryChangeNotified ==
  (Done /\ value.items # pre.items) => emitted # <<>>

SubOperations ==
  CASE call.method = "update" -> Cardinality(UpdateKeys(call))
    [] call.method = "clear" -> Cardinality(DOMAIN pre.items)
    [] call.method = "extend" -> Len(call.args[1].items)
    [] OTHER -> 1

C10_RoundTrip ==
  /\ (pc \in {"wire", "done"}) => wire.err = NoErr
  /\ (pc \in {"wire", "done"} /\ pydt = NoneObj) => wire.val = NoneObj
  /\ pc = "done" => (back.err = NoErr /\ back.val = pydt)

\* --------------------------------------------------------------- C11
\* The CSS color names: those of _color_names, none of which holds a space.
CssColorNames ==
  (_color_names \ {"indianred ", "indigo "}) \cup {"indianred", "indigo"}

\* C11 (as claimed): Color.validate(s) returns s unchanged iff s.lower() is
\* a CSS color name or s matches ^#[0-9a-fA-F]{3}([0-9a-fA-F]{3})?$, and
\* raises a validation error otherwise; every CSS color name is accepted
\* in any letter case.
C11_ColorAccepted ==
  colorResult.err \in {NoErr, "TraitError"} =>
     /\ colorResult.err = NoErr
          <=> (Str(lower(colorValue)) \in CssColorNames \/ _color_re_match(colorValue))
     /\ colorResult.err = NoErr => colorResult.val = colorValue

\* --------------------------------------------------------------- C13
\* C13 (as claimed): after update(m, **kw) the mapping m passed
\* positionally holds exactly the entries it held before the call, for
\* every m and kw.
C13_ArgumentsUnchanged ==
  (IsCall("dict", "update") /\ Len(call.args) = 1 /\ call.args[1].type = "dict")
     => argsAfter[1].items = call.args[1].items

\* --------------------------------------------------------------- C14
\* C14: remove(x) on a sequence holding x emits exactly one removal record
\* {key: i, old: e}, i the index of the first element equal to x before
\* the call and e that element; afterwards that one element is gone and
\* the others keep their order.
C14_RemoveRecord ==
  (IsCall("list", "remove") /\ \E i \in DOMAIN pre.items : pre.items[i] = call.args[1]) =>
     \E i \in DOMAIN pre.items :
        /\ pre.items[i] = call.args[1]
        /\ \A j \in 1..(i - 1) : pre.items[j] # call.args[1]
        /\ err = NoErr
        /\ emitted = <<[key |-> i - 1, old |-> pre.items[i]]>>
        /\ Len(value.items) = Len(pre.items) - 1
        /\ \A j \in DOMAIN value.items :
              value.items[j] = IF j < i THEN pre.items[j] ELSE pre.items[j + 1]

\* remove of an element the sequence holds twice, with another between.
C14_Witness ==
  /\ IsCall("list", "remove")
  /\ Len(emitted) = 1
  /\ \E j \in DOMAIN pre.items :
        /\ j > emitted[1].key + 2
        /\ pre.items[j] = call.args[1]
        /\ pre.items[j - 1] # call.args[1]

\* --------------------------------------------------------------- C15
\* C15: clear() on a mapping of n keys emits exactly n removal records,
\* one {key, old} per key the mapping held with old its prior value, none
\* when the mapping was empty; afterwards the mapping is empty.
C15_ClearRecords ==
  IsCall("dict", "clear") =>
     /\ err = NoErr
     /\ value.items = EmptyMap
     /\ Len(emitted) = Cardinality(DOMAIN pre.items)
     /\ \A k \in DOMAIN pre.items :
           \E i \in DOMAIN emitted : emitted[i] = [key |-> k, old |-> pre.items[k]]

C15_Witness ==
  /\ IsCall("dict", "clear")
  /\ Cardinality(DOMAIN pre.items) = 2
  /\ Len(emitted) = 2
  /\ value.items = EmptyMap

\* --------------------------------------------------------------- C16
\* C16: del m[k] and pop(k[, default]) with k present emit exactly one
\* record {key: k, old: prior value}, also when the prior value is None,
\* and k is absent afterwards; pop(k, default) with k absent emits nothing
\* and leaves the mapping unchanged.
C16_DeletionRecord ==
  (IsCall("dict", "__delitem__") \/ IsCall("dict", "pop")) =>
     /\ call.args[1] \in DOMAIN pre.items =>
           /\ err = NoErr
           /\ emitted = <<[key |-> call.args[1], old |-> pre.items[call.args[1]]]>>
           /\ call.args[1] \notin DOMAIN value.items
     /\ (call.args[1] \notin DOMAIN pre.items /\ call.method = "pop" /\ Len(call.args) = 2) =>
           /\ err = NoErr
           /\ emitted = <<>>
           /\ value.items = pre.items

\* Deleting a key whose value is None.
C16_Witness ==
  /\ IsCall("dict", "__delitem__") \/ IsCall("dict", "pop")
  /\ call.args[1] \in DOMAIN pre.items
  /\ pre.items[call.args[1]] = None
  /\ Len(emitted) = 1
  /\ emitted[1].old = None

\* --------------------------------------------------------------- C17
\* C17: setdefault(k, v) with k present leaves the mapping unchanged and
\* emits nothing, whatever v is; with k absent it emits exactly one record
\* {key: k, old: the absent sentinel, new: v}, new being None when v is
\* omitted.
C17_SetDefaultRecord ==
  IsCall("dict", "setdefault") =>
     /\ call.args[1] \in DOMAIN pre.items =>
           /\ err = NoErr
           /\ emitted = <<>>
           /\ value.items = pre.items
     /\ call.args[1] \notin DOMAIN pre.items =>
           /\ err = NoErr
           /\ emitted = <<[key |-> call.args[1],
                           old |-> Undefined,
                           new |-> IF Len(call.args) = 2 THEN call.args[2] ELSE None]>>

\* setdefault(k) of an absent key, v omitted.
C17_Witness ==
  /\ IsCall("dict", "setdefault")
  /\ Len(call.args) = 1
  /\ call.args[1] \notin DOMAIN pre.items
  /\ Len(emitted) = 1
  /\ emitted[1].new = None

\* --------------------------------------------------------------- C18
\* C18: update(m, **kw) with a key k of both m and kw leaves kw[k] at k,
\* and emits at most one record for k, with new kw[k] and old the value at
\* k before the call.
C18_NamedTakesPrecedence ==
  (IsCall("dict", "update") /\ Len(call.args) = 1 /\ call.args[1].type = "dict") =>
     \A k \in (DOMAIN call.args[1].items) \cap (DOMAIN call.kwargs) :
        /\ err = NoErr
        /\ value.items[k] = call.kwargs[k]
        /\ Cardinality(RecordsFor(k)) <= 1
        /\ \A i \in RecordsFor(k) :
              /\ emitted[i].new = call.kwargs[k]
              /\ emitted[i].old = OldAt(k)

\* A key of both arguments with different values, over a third value.
C18_Witness ==
  /\ IsCall("dict", "update")
  /\ Len(call.args) = 1
  /\ call.args[1].type = "dict"
  /\ \E k \in (DOMAIN call.args[1].items) \cap (DOMAIN call.kwargs) \cap (DOMAIN pre.items) :
        /\ call.args[1].items[k] # call.kwargs[k]
        /\ pre.items[k] # call.kwargs[k]
        /\ pre.items[k] # call.args[1].items[k]
        /\ Cardinality(RecordsFor(k)) = 1

\* --------------------------------------------------------------- C19
\* C19: starting from a mirror equal to the mapping, after any sequence of
\* instrumented operations of the mapping (item assignment, setdefault,
\* item deletion, pop, update, clear), the mirror to which the emitted
\* records were applied in emission order equals the mapping's contents.
C19_MirrorInSync ==
  /\ phase = "idle" => mirror = value.items
  /\ phase = "returned" => ApplyRecords(mirror, emitted) = value.items

\* An update that changed two keys, its records not yet applied.
C19_Witness ==
  /\ IsCall("dict", "update")
  /\ err = NoErr
  /\ Len(emitted) = 2
  /\ mirror # value.items
  /\ mirror # EmptyMap
  /\ ApplyRecords(mirror, emitted) = value.items

\* --------------------------------------------------------------- C12
\* C12 (as claimed): the old and new fields of the record emitted by
\* reverse() or sort() are snapshots: a later mutation of the container
\* leaves both fields of the already-emitted record unchanged.
C12_RecordImmutable ==
  kept # NoRecord =>
     /\ Deref(kept.old) = keptShown.old
     /\ Deref(kept.new) = keptShown.new

====
